---- MODULE Spec2Model ----
(***************************************************************************)
(* A model of LightWave2D/detector.py: the PointDetector and the           *)
(* CircularDetector, their construction (__post_init__,                    *)
(* construct_object), update_data and the plotting accessors.              *)
(*                                                                         *)
(* numpy arrays are records [shape, flat]: the shape tuple and the values  *)
(* in row-major (C) order; a 0-d result (a scalar) has shape << >>.        *)
(* cv2.ellipse is modelled by OpenCV's drawing code (ellipse -> EllipseEx  *)
(* -> ellipse2Poly -> PolyLine -> ThickLine -> Line2, with clipLine), in   *)
(* its 16 bit fixed point, for semi-axes below 10 pixels.                  *)
(***************************************************************************)
EXTENDS Integers, Sequences, FiniteSets, TLC

(***************************************************************************)
(* Bounds of the model.                                                    *)
(***************************************************************************)
MaxDim == 4        \* the grid has MaxDim cells on one axis, MaxDim-1 on the other
MaxPitch == 2      \* physical length of a cell, per axis, 1 .. MaxPitch
MaxRadius == 3     \* physical radius of the circular detector, 0 .. MaxRadius
MaxSteps == 2      \* time entries of a field tensor, and grid.n_steps, 1 .. MaxSteps
MaxSeed == 1       \* field tensors are drawn from seeds 0 .. MaxSeed

(***************************************************************************)
(* Integer helpers.                                                        *)
(***************************************************************************)
Abs(n) == IF n < 0 THEN -n ELSE n

Min(a, b) == IF a <= b THEN a ELSE b

Max(a, b) == IF a >= b THEN a ELSE b

\* One base-256 digit of the long multiplication p*q / d: from acc, the
\* <<quotient, remainder>> of p*(the digits so far) by d, to that of
\* p*(the digits so far * 256 + digit).
MulDivDigit(acc, p, digit, d) ==
    << acc[1] * 256 + ((acc[2] * 256 + p * digit) \div d),
       (acc[2] * 256 + p * digit) % d >>

\* floor(p*q / d) for 0 <= p <= d and 0 <= q < 2^24, digit by digit so that no
\* intermediate value leaves the 32 bit integers of the checker.
MulDivFloor(p, q, d) ==
    MulDivDigit(MulDivDigit(MulDivDigit(<<0, 0>>, p, q \div 65536, d),
                            p, (q \div 256) % 256, d),
                p, q % 256, d)[1]

\* (int64)((double)p * q / d) and the int64 p * q / d: the exact quotient
\* truncated towards zero.
TruncMulDiv(p, q, d) ==
    LET sgn == (IF p < 0 THEN -1 ELSE 1) * (IF q < 0 THEN -1 ELSE 1)
                 * (IF d < 0 THEN -1 ELSE 1)
    IN  sgn * MulDivFloor(Abs(p), Abs(q), Abs(d))

\* cvRound of the rational n/d (d > 0): to the nearest integer, ties to even.
cvRound(n, d) ==
    LET q == n \div d
        r == n % d
    IN  IF 2 * r < d THEN q
        ELSE IF 2 * r > d THEN q + 1
        ELSE IF q % 2 = 0 THEN q ELSE q + 1

(***************************************************************************)
(* OpenCV drawing: fixed point, sine table, polygon of the ellipse.        *)
(***************************************************************************)
XY_SHIFT == 16

XY_ONE == 2 ^ XY_SHIFT

\* SinTable[angle] as a float32, given as its numerator over 2^24, for the
\* multiples of 30 degrees that delta = 90 and delta = 30 read.
SinTable(angle) ==
    LET a == angle % 360
        q == IF a <= 90 THEN a
             ELSE IF a <= 180 THEN 180 - a
             ELSE IF a <= 270 THEN a - 180
             ELSE 360 - a
        v == CASE q = 0  -> 0
               [] q = 30 -> 8388608
               [] q = 60 -> 14529495
               [] q = 90 -> 16777216
    IN  IF a > 180 THEN -v ELSE v

\* EllipseEx: the angular step of the polygon, from the larger semi-axis.
EllipseDelta(axes) ==
    LET d == (Max(Abs(axes[1]), Abs(axes[2])) * XY_ONE + (XY_ONE \div 2)) \div XY_ONE
    IN  IF d < 3 THEN 90 ELSE IF d < 10 THEN 30 ELSE IF d < 15 THEN 18 ELSE 5

\* ellipse2Poly at angle = 0 followed by EllipseEx's rounding: vertex number k
\* (at k*delta degrees) in fixed point.  axes.width * SinTable is
\* axes[1] * 2^16 * num / 2^24 = axes[1] * num / 2^8.
EllipseVertex(center, axes, delta, k) ==
    LET angle == Min(k * delta, 360)
    IN  << center[1] * XY_ONE + cvRound(Abs(axes[1]) * SinTable(450 - angle), 256),
           center[2] * XY_ONE + cvRound(Abs(axes[2]) * SinTable(angle), 256) >>

\* EllipseEx: drop a vertex equal to the one before it.
RECURSIVE DropRepeats(_)
DropRepeats(s) ==
    IF Len(s) <= 1 THEN s
    ELSE IF s[1] = s[2] THEN DropRepeats(Tail(s))
    ELSE <<s[1]>> \o DropRepeats(Tail(s))

EllipsePoly(center, axes) ==
    LET delta == EllipseDelta(axes)
        n == 360 \div delta
        v == DropRepeats([k \in 1..(n + 1) |-> EllipseVertex(center, axes, delta, k - 1)])
    IN  IF Len(v) <= 1
        THEN << <<center[1] * XY_ONE, center[2] * XY_ONE>>,
                <<center[1] * XY_ONE, center[2] * XY_ONE>> >>
        ELSE v

(***************************************************************************)
(* OpenCV drawing: clipLine and Line2.  size is <<width, height>> in       *)
(* pixels; points are <<x, y>> with x the column and y the row.            *)
(***************************************************************************)
OutCode(x, y, right, bottom) ==
    (IF x < 0 THEN {"L"} ELSE {}) \cup (IF x > right THEN {"R"} ELSE {})
      \cup (IF y < 0 THEN {"T"} ELSE {}) \cup (IF y > bottom THEN {"B"} ELSE {})

OutCodeX(x, right) ==
    (IF x < 0 THEN {"L"} ELSE {}) \cup (IF x > right THEN {"R"} ELSE {})

\* The state of clipLine: the two end points and their out codes c1, c2.
ClipState(x1, y1, x2, y2, c1, c2) ==
    [x1 |-> x1, y1 |-> y1, x2 |-> x2, y2 |-> y2, c1 |-> c1, c2 |-> c2]

\* (c1 & c2) == 0 && (c1 | c2) != 0
Crossing(s) == s.c1 \cap s.c2 = {} /\ s.c1 \cup s.c2 # {}

\* if( c1 & 12 ): the first point onto the top or bottom line a.
ClipY1(s, right, bottom) ==
    IF ~Crossing(s) \/ s.c1 \cap {"T", "B"} = {} THEN s
    ELSE ClipState(s.x1 + TruncMulDiv((IF "B" \in s.c1 THEN bottom ELSE 0) - s.y1,
                                      s.x2 - s.x1, s.y2 - s.y1),
                   IF "B" \in s.c1 THEN bottom ELSE 0,
                   s.x2, s.y2,
                   OutCodeX(s.x1 + TruncMulDiv((IF "B" \in s.c1 THEN bottom ELSE 0) - s.y1,
                                               s.x2 - s.x1, s.y2 - s.y1), right),
                   s.c2)

\* if( c2 & 12 ): the second point onto the top or bottom line a.
ClipY2(s, right, bottom, crossed) ==
    IF ~crossed \/ s.c2 \cap {"T", "B"} = {} THEN s
    ELSE ClipState(s.x1, s.y1,
                   s.x2 + TruncMulDiv((IF "B" \in s.c2 THEN bottom ELSE 0) - s.y2,
                                      s.x2 - s.x1, s.y2 - s.y1),
                   IF "B" \in s.c2 THEN bottom ELSE 0,
                   s.c1,
                   OutCodeX(s.x2 + TruncMulDiv((IF "B" \in s.c2 THEN bottom ELSE 0) - s.y2,
                                               s.x2 - s.x1, s.y2 - s.y1), right))

\* if( c1 ): the first point onto the left or right line a.
ClipX1(s, right) ==
    IF ~Crossing(s) \/ s.c1 = {} THEN s
    ELSE ClipState(IF s.c1 = {"L"} THEN 0 ELSE right,
                   s.y1 + TruncMulDiv((IF s.c1 = {"L"} THEN 0 ELSE right) - s.x1,
                                      s.y2 - s.y1, s.x2 - s.x1),
                   s.x2, s.y2, {}, s.c2)

\* if( c2 ): the second point onto the left or right line a.
ClipX2(s, right, crossed) ==
    IF ~crossed \/ s.c2 = {} THEN s
    ELSE ClipState(s.x1, s.y1,
                   IF s.c2 = {"L"} THEN 0 ELSE right,
                   s.y2 + TruncMulDiv((IF s.c2 = {"L"} THEN 0 ELSE right) - s.x2,
                                      s.y2 - s.y1, s.x2 - s.x1),
                   s.c1, {})

\* clipLine on the scaled size: the clipped end points, with empty out codes
\* exactly when a part of the segment is inside.  The two blocks of the code
\* run one after the other, each under the test on the codes it starts with.
\* (A value is bound through a singleton set where it is to be computed once.)
ClipTopBottom(s, right, bottom) ==
    CHOOSE r \in {ClipY2(t, right, bottom, Crossing(s)) :
                    t \in {ClipY1(s, right, bottom)}} : TRUE

ClipLeftRight(s, right) ==
    CHOOSE r \in {ClipX2(t, right, Crossing(s)) : t \in {ClipX1(s, right)}} : TRUE

clipLine(scaled, pt1, pt2) ==
    CHOOSE r \in
      {ClipLeftRight(t, scaled[1] - 1) :
         t \in {ClipTopBottom(s, scaled[1] - 1, scaled[2] - 1) :
                  s \in {ClipState(pt1[1], pt1[2], pt2[1], pt2[2],
                           OutCode(pt1[1], pt1[2], scaled[1] - 1, scaled[2] - 1),
                           OutCode(pt2[1], pt2[2], scaled[1] - 1, scaled[2] - 1))}}} : TRUE

\* ICV_PUT_POINT: the pixel, when it is inside the image.
PutPoint(size, x, y) ==
    IF 0 <= x /\ x < size[1] /\ 0 <= y /\ y < size[2] THEN {<<x, y>>} ELSE {}

\* ax | 1
OrOne(n) == IF n % 2 = 0 THEN n + 1 ELSE n

\* Line2 for ax > ay, the end points ordered by x: the end point pt2, then
\* ecount+1 pixels from pt1, one per column, the fixed point row advanced by
\* y_step per column.
Line2AlongX(size, pt1, pt2) ==
    PutPoint(size, (pt2[1] + (XY_ONE \div 2)) \div XY_ONE,
                   (pt2[2] + (XY_ONE \div 2)) \div XY_ONE)
      \cup UNION {PutPoint(size,
                           ((pt1[1] + (XY_ONE \div 2)) \div XY_ONE) + i,
                           (pt1[2] + (XY_ONE \div 2) + i * y_step) \div XY_ONE) :
                    i \in 0..((pt2[1] - pt1[1]) \div XY_ONE),
                    y_step \in {TruncMulDiv(pt2[2] - pt1[2], XY_ONE,
                                            OrOne(pt2[1] - pt1[1]))}}

\* Line2 for ax <= ay, the end points ordered by y.
Line2AlongY(size, pt1, pt2) ==
    PutPoint(size, (pt2[1] + (XY_ONE \div 2)) \div XY_ONE,
                   (pt2[2] + (XY_ONE \div 2)) \div XY_ONE)
      \cup UNION {PutPoint(size,
                           (pt1[1] + (XY_ONE \div 2) + i * x_step) \div XY_ONE,
                           ((pt1[2] + (XY_ONE \div 2)) \div XY_ONE) + i) :
                    i \in 0..((pt2[2] - pt1[2]) \div XY_ONE),
                    x_step \in {TruncMulDiv(pt2[1] - pt1[1], XY_ONE,
                                            OrOne(pt2[2] - pt1[2]))}}

\* Line2 after clipLine: nothing when the segment is outside; else along the
\* major axis, the end points swapped so that the major coordinate grows.
Line2Clipped(size, s) ==
    IF s.c1 \cup s.c2 # {} THEN {}
    ELSE IF Abs(s.x2 - s.x1) > Abs(s.y2 - s.y1)
    THEN IF s.x2 - s.x1 < 0
         THEN Line2AlongX(size, <<s.x2, s.y2>>, <<s.x1, s.y1>>)
         ELSE Line2AlongX(size, <<s.x1, s.y1>>, <<s.x2, s.y2>>)
    ELSE IF s.y2 - s.y1 < 0
         THEN Line2AlongY(size, <<s.x2, s.y2>>, <<s.x1, s.y1>>)
         ELSE Line2AlongY(size, <<s.x1, s.y1>>, <<s.x2, s.y2>>)

\* Line2: the pixels of the segment p1 -> p2 (fixed point end points).
Line2(size, p1, p2) ==
    UNION {Line2Clipped(size, s) :
             s \in {clipLine(<<size[1] * XY_ONE, size[2] * XY_ONE>>, p1, p2)}}

\* PolyLine (not closed) with thickness 1 and LINE_8: Line2 on every edge.
PolyLine(size, v) ==
    UNION {Line2(size, v[i], v[i + 1]) : i \in 1..(Len(v) - 1)}

\* cv2.ellipse(img, center, axes, angle=0, startAngle=0, endAngle=360, color)
\* with the default thickness=1: the pixels <<column, row>> set to the colour.
cv2_ellipse(size, center, axes) ==
    UNION {PolyLine(size, v) : v \in {EllipsePoly(center, axes)}}

(***************************************************************************)
(* numpy: arrays as [shape, flat], indexing, abs, sum, argwhere, arctan2.  *)
(***************************************************************************)
RECURSIVE SeqSum(_)
SeqSum(s) == IF s = << >> THEN 0 ELSE Head(s) + SeqSum(Tail(s))

RECURSIVE GCD(_, _)
GCD(a, b) == IF b = 0 THEN a ELSE GCD(b, a % b)

\* numpy.zeros(n)
numpy_zeros(n) == [shape |-> <<n>>, flat |-> [i \in 1..n |-> 0]]

\* field[t, x, y] of a 3-d array, 0-based
Item3(arr, t, x, y) ==
    arr.flat[t * arr.shape[2] * arr.shape[3] + x * arr.shape[3] + y + 1]

\* arr[t, m] of a 2-d array, 0-based
Item2(arr, t, m) == arr.flat[t * arr.shape[2] + m + 1]

\* field[:, x, y]: the 1-d array over the leading axis
IndexPoint(arr, x, y) ==
    [shape |-> <<arr.shape[1]>>,
     flat |-> [t \in 1..arr.shape[1] |-> Item3(arr, t - 1, x, y)]]

\* The 0-based flat positions of the true entries of a flat boolean sequence, in
\* increasing order: the C order in which numpy visits an array.
RECURSIVE TruePositions(_, _)
TruePositions(flat, k) ==
    IF k > Len(flat) THEN << >>
    ELSE (IF flat[k] THEN <<k - 1>> ELSE << >>) \o TruePositions(flat, k + 1)

\* A variant of numpy_argwhere_T: the true cells enumerated from the last to the
\* first.
numpy_argwhere_T_reversed(mask) ==
    LET pos == TruePositions(mask.flat, 1)
        M == Len(pos)
        ncol == mask.shape[2]
    IN  [shape |-> <<2, M>>,
         flat |-> [i \in 1..(2 * M) |->
                     IF i <= M THEN pos[M + 1 - i] \div ncol
                     ELSE pos[2 * M + 1 - i] % ncol]]

\* numpy.argwhere(mask).T for a 2-d mask: shape (2, M), row 0 the first indices
\* and row 1 the second indices of the true cells, in C order.
numpy_argwhere_T(mask) ==
    LET pos == TruePositions(mask.flat, 1)
        M == Len(pos)
        ncol == mask.shape[2]
    IN  [shape |-> <<2, M>>,
         flat |-> [i \in 1..(2 * M) |->
                     IF i <= M THEN pos[i] \div ncol ELSE pos[i - M] % ncol]]

\* field[:, mask] for a 3-d field and a 2-d boolean mask: shape (T, M), the
\* masked cells of every time entry in C order.
IndexMask(arr, mask) ==
    LET pos == TruePositions(mask.flat, 1)
        M == Len(pos)
        T == arr.shape[1]
        cells == arr.shape[2] * arr.shape[3]
    IN  [shape |-> <<T, M>>,
         flat |-> [i \in 1..(T * M) |->
                     arr.flat[((i - 1) \div M) * cells + pos[((i - 1) % M) + 1] + 1]]]

\* Python's index of a sequence of length n: negative indices count from the end.
NormIndex(i, n) == IF i < 0 THEN i + n ELSE i

\* Python's slice bound (step None) on a sequence of length n.
NormBound(b, n) == IF b < 0 THEN Max(b + n, 0) ELSE Min(b, n)

\* data[slc] on the leading axis of a 2-d array; slc is [kind, a, b]: the
\* integer index a, or the slice a:b.
GetItem(arr, slc) ==
    LET T == arr.shape[1]
        M == arr.shape[2]
    IN  IF slc.kind = "int"
        THEN LET t == NormIndex(slc.a, T)
             IN  [shape |-> <<M>>, flat |-> [m \in 1..M |-> arr.flat[t * M + m]]]
        ELSE LET start == NormBound(slc.a, T)
                 stop == NormBound(slc.b, T)
                 k == Max(stop - start, 0)
             IN  [shape |-> <<k, M>>,
                  flat |-> [j \in 1..(k * M) |-> arr.flat[start * M + j]]]

\* abs(arr)
numpy_abs(arr) ==
    [shape |-> arr.shape, flat |-> [i \in 1..Len(arr.flat) |-> Abs(arr.flat[i])]]

\* arr.sum(axis=0): of a 1-d array the 0-d sum of its entries, of a 2-d array
\* the 1-d array of its column sums.
numpy_sum_axis0(arr) ==
    IF Len(arr.shape) = 1
    THEN [shape |-> << >>, flat |-> <<SeqSum(arr.flat)>>]
    ELSE LET k == arr.shape[1]
             M == arr.shape[2]
         IN  [shape |-> <<M>>,
              flat |-> [m \in 1..M |-> SeqSum([t \in 1..k |-> arr.flat[(t - 1) * M + m]])]]

\* numpy.arctan2(y, x) of integers, exactly: the angle halfpi * (pi/2) +
\* atan(num / den) with 0 <= atan(num / den) < pi/2 and num / den in lowest terms.
Angle(halfpi, num, den) ==
    LET g == GCD(num, den)
    IN  [halfpi |-> halfpi, num |-> num \div g, den |-> den \div g]

numpy_arctan2(y, x) ==
    IF y = 0 /\ x >= 0 THEN Angle(0, 0, 1)
    ELSE IF y = 0 THEN Angle(2, 0, 1)
    ELSE IF y > 0 /\ x > 0 THEN Angle(0, y, x)
    ELSE IF y > 0 THEN Angle(1, -x, y)
    ELSE IF x < 0 THEN Angle(-2, -y, -x)
    ELSE Angle(-1, x, -y)

(***************************************************************************)
(* Grid (LightWave2D.grid): a grid record is [shape, dx, dy, n_steps].     *)
(***************************************************************************)
\* The index of the cell nearest to the physical coordinate v, for cells of
\* length d starting at 0.
NearestIndex(v, d) == (2 * v + d) \div (2 * d)

\* grid.get_coordinate(x, y): the physical pair with its index pair.
Grid_get_coordinate(grid, px, py) ==
    [x |-> px, y |-> py,
     x_index |-> NearestIndex(px, grid.dx), y_index |-> NearestIndex(py, grid.dy)]

\* get_coordinate fails for a coordinate outside the grid.
Grid_in_bounds(grid, px, py) ==
    /\ NearestIndex(px, grid.dx) < grid.shape[1]
    /\ NearestIndex(py, grid.dy) < grid.shape[2]

\* grid.time_stamp: one ascending time value per step.
Grid_time_stamp(grid) ==
    [shape |-> <<grid.n_steps>>, flat |-> [i \in 1..grid.n_steps |-> i - 1]]

(***************************************************************************)
(* PointDetector.  A method is an operator from self (and its arguments)   *)
(* to [self, scene, err]: the object after the call, the draw command it   *)
(* issued, and the exception it raised ("none" when it returned).          *)
(***************************************************************************)
NoScene == [call |-> "none"]

\* A variant of PointDetector_post_init: data sized by the grid's first axis.
PointDetector_post_init_shape(grid, position) ==
    [position |-> Grid_get_coordinate(grid, position[1], position[2]),
     data |-> numpy_zeros(grid.shape[1]),
     defined |-> {"grid", "position", "data"}]

PointDetector_post_init(grid, position) ==
    [position |-> Grid_get_coordinate(grid, position[1], position[2]),
     data |-> numpy_zeros(grid.n_steps),
     defined |-> {"grid", "position", "data"}]

\* A variant of PointDetector_update_data: the slice written into the array
\* that data already holds (data[:T] = ...), which keeps its length.
PointDetector_update_data_in_place(self, fld) ==
    [self |-> [self EXCEPT !.data.flat =
                 [i \in 1..Len(@) |->
                    IF i <= fld.shape[1]
                    THEN Item3(fld, i - 1, self.position.x_index, self.position.y_index)
                    ELSE @[i]]],
     scene |-> NoScene, err |-> "none"]

PointDetector_update_data(self, fld) ==
    [self |-> [self EXCEPT !.data = IndexPoint(fld, self.position.x_index,
                                               self.position.y_index)],
     scene |-> NoScene, err |-> "none"]

PointDetector_plot_data(self, grid) ==
    [self |-> self,
     scene |-> [call |-> "add_line", x |-> Grid_time_stamp(grid), y |-> self.data],
     err |-> "none"]

PointDetector_add_to_ax(self) ==
    [self |-> self,
     scene |-> [call |-> "add_scatter", x |-> self.position.x, y |-> self.position.y],
     err |-> "none"]

(***************************************************************************)
(* CircularDetector.                                                       *)
(***************************************************************************)
\* A variant of CircularDetector_ellipse: thickness=-1, the ellipse filled.
CircularDetector_ellipse_filled(grid, position, radius_indexes) ==
    cv2_ellipse(<<grid.shape[2], grid.shape[1]>>,
                <<position.y_index, position.x_index>>,
                <<radius_indexes.x_index, radius_indexes.y_index>>)
      \cup {p \in (0..(grid.shape[2] - 1)) \X (0..(grid.shape[1] - 1)) :
              /\ radius_indexes.x_index > 0 /\ radius_indexes.y_index > 0
              /\ (p[1] - position.y_index) * (p[1] - position.y_index)
                     * radius_indexes.y_index * radius_indexes.y_index
                   + (p[2] - position.x_index) * (p[2] - position.x_index)
                     * radius_indexes.x_index * radius_indexes.x_index
                   <= radius_indexes.x_index * radius_indexes.x_index
                        * radius_indexes.y_index * radius_indexes.y_index}

\* The cv2.ellipse call of construct_object on the image of the grid's shape:
\* numpy's first axis is the image's row (y), its second the column (x).
CircularDetector_ellipse(grid, position, radius_indexes) ==
    cv2_ellipse(<<grid.shape[2], grid.shape[1]>>,
                <<position.y_index, position.x_index>>,
                <<radius_indexes.x_index, radius_indexes.y_index>>)

\* numpy.zeros(grid.shape, uint8) after the drawing, .astype(bool)
CircularDetector_object_idx(grid, position, radius_indexes) ==
    LET drawn == CircularDetector_ellipse(grid, position, radius_indexes)
        ncol == grid.shape[2]
    IN  [shape |-> grid.shape,
         flat |-> [k \in 1..(grid.shape[1] * grid.shape[2]) |->
                     <<(k - 1) % ncol, (k - 1) \div ncol>> \in drawn]]

\* A variant of CircularDetector_angle_list: the arguments of arctan2 swapped.
CircularDetector_angle_list_swapped(coords, position) ==
    LET M == coords.shape[2]
    IN  [shape |-> <<M>>,
         flat |-> [m \in 1..M |->
                     numpy_arctan2(coords.flat[M + m] - position.y_index,
                                   coords.flat[m] - position.x_index)]]

\* A variant of CircularDetector_angle_list: the angles of the coordinates
\* themselves, the centre not subtracted.
CircularDetector_angle_list_no_offset(coords, position) ==
    LET M == coords.shape[2]
    IN  [shape |-> <<M>>,
         flat |-> [m \in 1..M |-> numpy_arctan2(coords.flat[m], coords.flat[M + m])]]

\* numpy.arctan2(object_coordinate_index[0, :] - x_index,
\*               object_coordinate_index[1, :] - y_index)
CircularDetector_angle_list(coords, position) ==
    LET M == coords.shape[2]
    IN  [shape |-> <<M>>,
         flat |-> [m \in 1..M |->
                     numpy_arctan2(coords.flat[m] - position.x_index,
                                   coords.flat[M + m] - position.y_index)]]

CircularDetector_construct_object(self, grid) ==
    LET radius_indexes == Grid_get_coordinate(grid, self.radius, self.radius)
        object_idx == CircularDetector_object_idx(grid, self.position, radius_indexes)
        coords == numpy_argwhere_T(object_idx)
    IN  [self EXCEPT !.object_idx = object_idx,
                     !.object_coordinate_index = coords,
                     !.angle_list = CircularDetector_angle_list(coords, self.position),
                     !.defined = @ \cup {"object_idx", "object_coordinate_index",
                                         "angle_list"}]

\* A value for an attribute that holds nothing yet.
Unset == [shape |-> << >>, flat |-> << >>]

\* __post_init__: data is declared field(init=False) and is not assigned.
CircularDetector_post_init(grid, position, radius) ==
    CircularDetector_construct_object(
        [position |-> Grid_get_coordinate(grid, position[1], position[2]),
         radius |-> radius,
         data |-> Unset,
         object_idx |-> Unset,
         object_coordinate_index |-> Unset,
         angle_list |-> Unset,
         defined |-> {"grid", "position", "radius"}],
        grid)

CircularDetector_update_data(self, fld) ==
    [self |-> [self EXCEPT !.data = IndexMask(fld, self.object_idx),
                           !.defined = @ \cup {"data"}],
     scene |-> NoScene, err |-> "none"]

\* A variant of CircularDetector_plot_data: the magnitudes taken in place
\* (numpy.abs(self.data, out=self.data)) before the selection.
CircularDetector_plot_data_in_place(self, slc) ==
    IF "data" \notin self.defined
    THEN [self |-> self, scene |-> NoScene, err |-> "AttributeError"]
    ELSE IF slc.kind = "int" /\ NormIndex(slc.a, self.data.shape[1])
                                  \notin 0..(self.data.shape[1] - 1)
    THEN [self |-> self, scene |-> NoScene, err |-> "IndexError"]
    ELSE [self |-> [self EXCEPT !.data = numpy_abs(@)],
          scene |-> [call |-> "add_scatter", slc |-> slc, x |-> self.angle_list,
                     y |-> numpy_sum_axis0(numpy_abs(GetItem(self.data, slc)))],
          err |-> "none"]

CircularDetector_plot_data(self, slc) ==
    IF "data" \notin self.defined
    THEN [self |-> self, scene |-> NoScene, err |-> "AttributeError"]
    ELSE IF slc.kind = "int" /\ NormIndex(slc.a, self.data.shape[1])
                                  \notin 0..(self.data.shape[1] - 1)
    THEN [self |-> self, scene |-> NoScene, err |-> "IndexError"]
    ELSE [self |-> self,
          scene |-> [call |-> "add_scatter", slc |-> slc, x |-> self.angle_list,
                     y |-> numpy_sum_axis0(numpy_abs(GetItem(self.data, slc)))],
          err |-> "none"]

CircularDetector_add_to_ax(self) ==
    [self |-> self,
     scene |-> [call |-> "add_circle",
                position |-> <<self.position.x, self.position.y>>,
                radius |-> self.radius],
     err |-> "none"]

CircularDetector_plot(self) == CircularDetector_add_to_ax(self)

(***************************************************************************)
(* The state: one grid, one detector on it, the last field tensor handed   *)
(* to update_data, and the outcome of the last call.                       *)
(***************************************************************************)
VARIABLES
    grid,       \* [shape, dx, dy, n_steps]
    kind,       \* "point" or "circular"
    det,        \* the detector object
    field,      \* [seed, T] of the tensor of the last update_data call; T = 0 before
    scene,      \* the draw command of the last call
    err,        \* the exception of the last call, or "none"
    last_op     \* the name of the last call

vars == <<grid, kind, det, field, scene, err, last_op>>

\* The field tensors handed to update_data: T time entries over the grid.
FieldValue(seed, k) == ((7 * k + 5 * seed) % 11) - 5

Field(seed, T, shape) ==
    [shape |-> <<T, shape[1], shape[2]>>,
     flat |-> [k \in 1..(T * shape[1] * shape[2]) |-> FieldValue(seed, k - 1)]]

NoField == [seed |-> 0, T |-> 0]

\* The grids: not square, so that the two index axes cannot be confused.
Grids ==
    [shape : {<<MaxDim, MaxDim - 1>>, <<MaxDim - 1, MaxDim>>},
     dx : 1..MaxPitch, dy : 1..MaxPitch, n_steps : 1..MaxSteps]

\* Physical positions on the cells of the grid.
Positions(g) ==
    {<<i * g.dx, j * g.dy>> : i \in 0..(g.shape[1] - 1), j \in 0..(g.shape[2] - 1)}

\* Radii the grid resolves, with semi-axes the polygon table covers.
Radii(g) ==
    {r \in 0..MaxRadius :
        /\ Grid_in_bounds(g, r, r)
        /\ NearestIndex(r, g.dx) < 10 /\ NearestIndex(r, g.dy) < 10}

\* The arguments of plot_data: an integer index, in range or just beyond the
\* last entry, or a slice a:b that selects at least one entry.
Slices(T) ==
    [kind : {"int"}, a : (-T)..T, b : {0}]
      \cup {slc \in [kind : {"slice"}, a : (-1)..(T - 1), b : 1..T] :
              NormBound(slc.a, T) < slc.b}

Init ==
    /\ grid \in Grids
    /\ kind \in {"point", "circular"}
    \* n_steps is read by the PointDetector alone
    /\ kind = "circular" => grid.n_steps = MaxSteps
    /\ \E p \in Positions(grid) :
          IF kind = "point"
          THEN det = PointDetector_post_init(grid, p)
          ELSE \E r \in Radii(grid) : det = CircularDetector_post_init(grid, p, r)
    /\ field = NoField
    /\ scene = NoScene
    /\ err = "none"
    /\ last_op = "init"

Call(res, name) ==
    /\ det' = res.self
    /\ scene' = res.scene
    /\ err' = res.err
    /\ last_op' = name

PointUpdateData ==
    /\ kind = "point"
    /\ \E seed \in 0..MaxSeed, T \in 1..MaxSteps :
          /\ field' = [seed |-> seed, T |-> T]
          /\ Call(PointDetector_update_data(det, Field(seed, T, grid.shape)),
                  "update_data")
    /\ UNCHANGED <<grid, kind>>

PointPlotData ==
    /\ kind = "point"
    /\ Call(PointDetector_plot_data(det, grid), "plot_data")
    /\ UNCHANGED <<grid, kind, field>>

PointAddToAx ==
    /\ kind = "point"
    /\ Call(PointDetector_add_to_ax(det), "add_to_ax")
    /\ UNCHANGED <<grid, kind, field>>

CircularUpdateData ==
    /\ kind = "circular"
    /\ \E seed \in 0..MaxSeed, T \in 1..MaxSteps :
          /\ field' = [seed |-> seed, T |-> T]
          /\ Call(CircularDetector_update_data(det, Field(seed, T, grid.shape)),
                  "update_data")
    /\ UNCHANGED <<grid, kind>>

CircularPlotData ==
    /\ kind = "circular"
    /\ \E slc \in Slices(MaxSteps) :
          Call(CircularDetector_plot_data(det, slc), "plot_data")
    /\ UNCHANGED <<grid, kind, field>>

CircularPlot ==
    /\ kind = "circular"
    /\ Call(CircularDetector_plot(det), "plot")
    /\ UNCHANGED <<grid, kind, field>>

CircularAddToAx ==
    /\ kind = "circular"
    /\ Call(CircularDetector_add_to_ax(det), "add_to_ax")
    /\ UNCHANGED <<grid, kind, field>>

CircularConstructObject ==
    /\ kind = "circular"
    /\ det' = CircularDetector_construct_object(det, grid)
    /\ scene' = NoScene
    /\ err' = "none"
    /\ last_op' = "construct_object"
    /\ UNCHANGED <<grid, kind, field>>

Next ==
    \/ PointUpdateData
    \/ PointPlotData
    \/ PointAddToAx
    \/ CircularUpdateData
    \/ CircularPlotData
    \/ CircularPlot
    \/ CircularAddToAx
    \/ CircularConstructObject

Spec == Init /\ [][Next]_vars

(***************************************************************************)
(* Accessors used by the properties.                                       *)
(***************************************************************************)
IsPoint == kind = "point"

IsCircular == kind = "circular"

NX == grid.shape[1]

NY == grid.shape[2]

\* The cells of the grid, <<first index, second index>>.
Cells == (0..(NX - 1)) \X (0..(NY - 1))

\* mask[r, c]
MaskAt(r, c) == det.object_idx.flat[r * NY + c + 1]

\* M, the number of member coordinates
MemberCount == det.object_coordinate_index.shape[2]

\* The m-th member coordinate, 0-based: its first and its second index.
MemberRow(m) == det.object_coordinate_index.flat[m + 1]

MemberCol(m) == det.object_coordinate_index.flat[MemberCount + m + 1]

\* The resolved radius: x_index and y_index of get_coordinate(radius, radius).
RX == NearestIndex(det.radius, grid.dx)

RY == NearestIndex(det.radius, grid.dy)

CX == det.position.x_index

CY == det.position.y_index

\* The value of the last field tensor at [t, r, c].
FieldAt(t, r, c) == FieldValue(field.seed, t * NX * NY + r * NY + c)

\* The geometry of the detector.
Geometry(d) ==
    IF IsPoint THEN <<d.position>>
    ELSE <<d.position, d.radius, d.object_idx, d.object_coordinate_index, d.angle_list>>

\* The offset (dr, dc) lies in the closed ellipse with semi-axis s1 along the
\* first index axis and s2 along the second (a segment or a point when a
\* semi-axis is 0).
InEllipse(dr, dc, s1, s2) ==
    IF s1 = 0 THEN dr = 0 /\ Abs(dc) <= s2
    ELSE IF s2 = 0 THEN dc = 0 /\ Abs(dr) <= s1
    ELSE dr * dr * s2 * s2 + dc * dc * s1 * s1 <= s1 * s1 * s2 * s2

\* The unit square of the cell at offset (dr, dc) meets that ellipse: the point
\* of the square nearest to the centre, (max(|dr| - 1/2, 0), max(|dc| - 1/2, 0)),
\* lies in it.  In halves of a cell:
CellMeetsEllipse(dr, dc, s1, s2) ==
    LET u == Max(2 * Abs(dr) - 1, 0)
        v == Max(2 * Abs(dc) - 1, 0)
    IN  IF s1 = 0 THEN u = 0 /\ v <= 2 * s2
        ELSE IF s2 = 0 THEN v = 0 /\ u <= 2 * s1
        ELSE u * u * s2 * s2 + v * v * s1 * s1 <= 4 * s1 * s1 * s2 * s2

(***************************************************************************)
(* C1.  After update_data calls, the data of a PointDetector is exactly    *)
(* the slice of the last field tensor at (x_index, y_index): its length is *)
(* the number T of time entries of that tensor (not grid.n_steps), and     *)
(* data[t] = field[t, x_index, y_index] for every t.                       *)
(***************************************************************************)
C1_PointDataIsLastSlice ==
    (IsPoint /\ field.T > 0) =>
        /\ det.data.shape = <<field.T>>
        /\ Len(det.data.flat) = field.T
        /\ \A t \in 0..(field.T - 1) : det.data.flat[t + 1] = FieldAt(t, CX, CY)

C1_Witness ==
    /\ IsPoint /\ last_op = "update_data"
    /\ field.T # grid.n_steps
    /\ CX # CY
    /\ \E t \in 1..field.T : det.data.flat[t] # 0

(***************************************************************************)
(* C2.  After CircularDetector.update_data with a tensor of T time steps,  *)
(* data has shape (T, M), M the number of true cells of the mask, and      *)
(* data[t][m] = field[t, r, c] for the m-th member coordinate (r, c) of    *)
(* object_coordinate_index.                                                *)
(***************************************************************************)
C2_CircularDataAligned ==
    (IsCircular /\ "data" \in det.defined) =>
        /\ MemberCount = Cardinality({c \in Cells : MaskAt(c[1], c[2])})
        /\ det.data.shape = <<field.T, MemberCount>>
        /\ Len(det.data.flat) = field.T * MemberCount
        /\ \A t \in 0..(field.T - 1), m \in 0..(MemberCount - 1) :
              Item2(det.data, t, m) = FieldAt(t, MemberRow(m), MemberCol(m))

C2_Witness ==
    /\ IsCircular /\ last_op = "update_data"
    /\ field.T >= 2
    /\ MemberCount >= 3
    /\ \E m \in 0..(MemberCount - 1) : MemberRow(m) # MemberRow(0)
    /\ \E m \in 0..(MemberCount - 1) : Item2(det.data, 1, m) # Item2(det.data, 0, m)

C4_MembersInsideEllipse ==
    IsCircular =>
        \A m \in 0..(MemberCount - 1) :
            /\ <<MemberRow(m), MemberCol(m)>> \in Cells
            /\ CellMeetsEllipse(MemberRow(m) - CX, MemberCol(m) - CY, RX, RY)

(***************************************************************************)
(* C5.  update_data, plot_data, plot and add_to_ax leave the geometry of   *)
(* the detector unchanged (position, radius, mask, member coordinates,     *)
(* angle list), and of them only update_data changes data.                 *)
(***************************************************************************)
C5_GeometryFrame ==
    [][ last_op' \in {"update_data", "plot_data", "plot", "add_to_ax"} =>
            /\ Geometry(det') = Geometry(det)
            /\ last_op' # "update_data" =>
                  det'.data = det.data /\ det'.defined = det.defined ]_vars

C5_Witness ==
    /\ IsCircular /\ last_op = "plot_data" /\ err = "none"
    /\ scene.slc.kind = "slice"
    /\ \E i \in 1..Len(det.data.flat) : det.data.flat[i] < 0

(***************************************************************************)
(* C6.  The claim as stated: plot_data of a CircularDetector hands the     *)
(* scatter view the angle list and one value per member cell, the sum over *)
(* the selected time steps of |data[t][m]|: over the steps of the range    *)
(* for a slice, over the single step for an integer index.                 *)
(***************************************************************************)
C6_Selected(slc) ==
    IF slc.kind = "int" THEN {NormIndex(slc.a, field.T)}
    ELSE NormBound(slc.a, field.T)..(NormBound(slc.b, field.T) - 1)

RECURSIVE C6_SumAbs(_, _)
C6_SumAbs(ts, m) ==
    IF ts = {} THEN 0
    ELSE LET t == CHOOSE u \in ts : TRUE
         IN  Abs(Item2(det.data, t, m)) + C6_SumAbs(ts \ {t}, m)

C6_ScatterPerCellAggregate ==
    (IsCircular /\ last_op = "plot_data" /\ err = "none") =>
        /\ scene.call = "add_scatter"
        /\ scene.x = det.angle_list
        /\ scene.y.shape = <<MemberCount>>
        /\ \A m \in 0..(MemberCount - 1) :
              scene.y.flat[m + 1] = C6_SumAbs(C6_Selected(scene.slc), m)

(***************************************************************************)
(* C7.  The claim as stated: the angle stored for the member coordinate    *)
(* directly above the centre (smaller first index, same second index) is   *)
(* 0 or pi.                                                                *)
(***************************************************************************)
C7_AngleAboveCentreZeroOrPi ==
    IsCircular =>
        \A m \in 0..(MemberCount - 1) :
            (MemberRow(m) < CX /\ MemberCol(m) = CY) =>
                det.angle_list.flat[m + 1] \in {Angle(0, 0, 1), Angle(2, 0, 1)}

(***************************************************************************)
(* C7, amended.  The angle stored for the member coordinate directly above *)
(* the centre is -pi/2: arctan2 of a negative first-index offset and a     *)
(* zero second-index offset.                                               *)
(***************************************************************************)
C7_AngleAboveCentreMinusHalfPi ==
    IsCircular =>
        \A m \in 0..(MemberCount - 1) :
            (MemberRow(m) < CX /\ MemberCol(m) = CY) =>
                det.angle_list.flat[m + 1] = Angle(-1, 0, 1)

C7_Witness ==
    /\ IsCircular
    /\ \E m \in 0..(MemberCount - 1) : MemberRow(m) < CX /\ MemberCol(m) = CY
    /\ \E m \in 0..(MemberCount - 1) : MemberRow(m) = CX /\ MemberCol(m) < CY

(***************************************************************************)
(* C8.  The angle list and the member coordinates have the same length M,  *)
(* the m-th angle is arctan2(first index - x_index, second index -         *)
(* y_index) of the m-th member coordinate, and construct_object called     *)
(* again reproduces the mask, the coordinates and the angles.              *)
(***************************************************************************)
C8_Aligned ==
    IsCircular =>
        /\ det.angle_list.shape = <<MemberCount>>
        /\ Len(det.angle_list.flat) = MemberCount
        /\ Len(det.object_coordinate_index.flat) = 2 * MemberCount
        /\ \A m \in 0..(MemberCount - 1) :
              det.angle_list.flat[m + 1] = numpy_arctan2(MemberRow(m) - CX, MemberCol(m) - CY)

C8_AnglesAlignedAndIdempotent ==
    /\ []C8_Aligned
    /\ [][last_op' = "construct_object" => Geometry(det') = Geometry(det)]_vars

C8_Witness ==
    /\ IsCircular /\ last_op = "construct_object"
    /\ MemberCount >= 4
    /\ \E m \in 0..(MemberCount - 1) : MemberRow(m) # CX /\ MemberCol(m) # CY
                                        /\ Abs(MemberRow(m) - CX) # Abs(MemberCol(m) - CY)

(***************************************************************************)
(* C9.  Before any update_data call the data of a PointDetector is all     *)
(* zero, of length grid.n_steps, and plot_data pairs it with a time_stamp  *)
(* sequence of the same length.                                            *)
(***************************************************************************)
C9_PointInitialData ==
    (IsPoint /\ field.T = 0) =>
        /\ det.data.shape = <<grid.n_steps>>
        /\ Len(det.data.flat) = grid.n_steps
        /\ \A i \in 1..Len(det.data.flat) : det.data.flat[i] = 0
        /\ last_op = "plot_data" =>
              /\ scene.call = "add_line"
              /\ scene.y = det.data
              /\ Len(scene.x.flat) = Len(scene.y.flat)

C9_Witness ==
    /\ IsPoint /\ field.T = 0 /\ last_op = "plot_data"
    /\ grid.n_steps >= 2
    /\ grid.n_steps # NX /\ grid.n_steps # NY

(***************************************************************************)
(* C10.  The claim as stated: a constructed CircularDetector has every     *)
(* attribute defined, data included, so that plot_data never fails on a    *)
(* missing data value.                                                     *)
(***************************************************************************)
C10_CircularFullyFormed ==
    IsCircular =>
        /\ {"position", "radius", "object_idx", "object_coordinate_index",
            "angle_list", "data"} \subseteq det.defined
        /\ ~(last_op = "plot_data" /\ err = "AttributeError")
====
